---- MODULE Spec2Model ----
(***************************************************************************)
(* The OTP backend of InnerLight (src/services/otpService.ts, the express  *)
(* part): the process-wide otpStorage Map, the send-otp and verify-otp     *)
(* handlers and the setInterval cleanup.  Node runs each handler without   *)
(* preemption up to its next await; the only await is the axios.post of    *)
(* send-otp, so send-otp is two steps (SendOtp, SmsReturn) and every other *)
(* handler is one.                                                         *)
(***************************************************************************)
EXTENDS Integers, Sequences, FiniteSets, Bags

VARIABLES
    otpStorage,  \* the Map: phone string -> [otp, expiresAt]
    now,         \* Date.now(), in ms since the process started
    nextSweep,   \* the time at which the setInterval timer is next due
    env,         \* process.env: [production, apiKey]
    inflight,    \* bag of send-otp handlers suspended at their await
    out,         \* the send-otp response written by the step just taken, if any
    last,        \* history: the latest handler run on the Map (issue or verify)
    successes,   \* history: per phone, verify successes since the last issue
    form,        \* the useState values of the Auth component
    pending,     \* the Auth component's suspended continuations and timers
    audit,       \* history: what the Auth component has verified and created
    exchange     \* the latest call of a client wrapper or of GET /api/health

serverVars == <<otpStorage, now, nextSweep, env, inflight, out, last, successes>>
authVars == <<form, pending, audit>>
vars == <<otpStorage, now, nextSweep, env, inflight, out, last, successes,
          form, pending, audit, exchange>>

----------------------------------------------------------------------------
(* Bounds of the model *)

ClockSlack == 1      \* Date.now() is read at the start and from one OTP_TTL
                     \* later up to ClockSlack ms after that
MaxInflight == 1     \* send-otp handlers suspended at a time
RandomDen == 2048    \* Math.random() is drawn from {k / RandomDen}

(* Program constants *)

OTP_TTL == 5 * 60 * 1000
SWEEP_INTERVAL == 60 * 1000
OTP_MIN == 100000
OTP_SPAN == 900000

----------------------------------------------------------------------------
(* JavaScript values: a string is a sequence of characters *)

Undefined == [type |-> "undefined", str |-> <<>>]
Str(s) == [type |-> "string", str |-> s]

\* variant: no value counts as missing
Truthy_Always(v) == TRUE

\* !v is false exactly for a non-empty string (undefined and "" are falsy)
Truthy(v) == v.type = "string" /\ v.str # <<>>

Digits == <<"0", "1", "2", "3", "4", "5", "6", "7", "8", "9">>
DigitChars == {Digits[i] : i \in 1..10}

\* variant: only the length is tested
IsTenDigits_LengthOnly(s) == Len(s) = 10

\* /^\d{10}$/.test(phone)
IsTenDigits(s) == Len(s) = 10 /\ \A i \in 1..Len(s) : s[i] \in DigitChars

\* Number.prototype.toString() of a non-negative integer
RECURSIVE toString(_)
toString(n) ==
    IF n < 10 THEN <<Digits[n + 1]>>
    ELSE Append(toString(n \div 10), Digits[(n % 10) + 1])

\* variant: Math.floor(Math.random() * 1000000), not padded
generateOTP_FromZero(k) == toString((k * (OTP_MIN + OTP_SPAN)) \div RandomDen)

\* Math.floor(100000 + Math.random() * 900000).toString(), Math.random() = k / RandomDen
generateOTP(k) == toString(OTP_MIN + ((k * OTP_SPAN) \div RandomDen))

----------------------------------------------------------------------------
(* Inputs *)

P1 == <<"9", "8", "7", "6", "5", "4", "3", "2", "1", "0">>
P2 == <<"9", "1", "2", "3", "4", "5", "6", "7", "8", "0">>
ShortPhone == <<"1", "2", "3", "4", "5">>
AlphaPhone == <<"9", "8", "7", "6", "5", "4", "3", "2", "1", "x">>

Phones == {P1, P2}
RandomSamples == {0, RandomDen - 1}
AllSamples == 0..(RandomDen - 1)
Codes == {generateOTP(k) : k \in RandomSamples}

SendBodies ==
    {[phone |-> Str(p)] : p \in Phones \cup {ShortPhone, AlphaPhone}}
    \cup {[phone |-> Undefined]}

VerifyBodies ==
    {[phone |-> Str(p), otp |-> Str(c)] : p \in Phones, c \in Codes}
    \cup {[phone |-> Undefined, otp |-> Str(generateOTP(0))],
          [phone |-> Str(P1), otp |-> Undefined]}

ClockReadings == {0} \cup {OTP_TTL + j : j \in 0..ClockSlack}
TransportOutcomes == {"ok", "fail", "throw"}

----------------------------------------------------------------------------
(* The Map *)

MapHas(m, k) == k \in DOMAIN m

\* variant: set() that stores nothing
MapSet_Dropped(m, k, v) == m

\* variant: set() that keeps an entry already there
MapSet_IfAbsent(m, k, v) == [x \in (DOMAIN m) \cup {k} |-> IF x \in DOMAIN m THEN m[x] ELSE v]

MapSet(m, k, v) == [x \in (DOMAIN m) \cup {k} |-> IF x = k THEN v ELSE m[x]]

\* variant: delete() that empties the Map
MapDelete_All(m, k) == [x \in {} |-> 0]

\* variant: delete() that removes nothing
MapDelete_Keeps(m, k) == m

MapDelete(m, k) == [x \in (DOMAIN m) \ {k} |-> m[x]]
EmptyMap == [x \in {} |-> 0]

\* what otpStorage.get(k) gives; NoEntry stands for undefined
NoEntry == [otp |-> <<>>, expiresAt |-> -1]
MapGet(m, k) == IF MapHas(m, k) THEN m[k] ELSE NoEntry

----------------------------------------------------------------------------
(* Responses and the history *)

Json(status, success, message, debug, verified) ==
    [status |-> status, success |-> success, message |-> message,
     debug |-> debug, verified |-> verified]

NoResponse == Json(0, FALSE, "", Undefined, FALSE)

\* a handler run on the Map.  An issue: the phone, the generated code, the time
\* of issuance and the code it replaced (Undefined when the phone had none).
\* A verify: the phone and the answer.
Issued(phone, otp, at, replaced) ==
    [kind |-> "issue", phone |-> phone, otp |-> otp, at |-> at,
     replaced |-> replaced, resp |-> NoResponse]

Verified(phone, resp) ==
    [kind |-> "verify", phone |-> phone, otp |-> Undefined, at |-> 0,
     replaced |-> Undefined, resp |-> resp]

NoEvent ==
    [kind |-> "none", phone |-> Undefined, otp |-> Undefined, at |-> 0,
     replaced |-> Undefined, resp |-> NoResponse]

\* a send-otp response: request phone, generated code, what the transport did
Sent(phone, otp, transport, resp) ==
    [phone |-> phone, otp |-> otp, transport |-> transport, resp |-> resp]

NoSend == Sent(Undefined, Undefined, "none", NoResponse)

\* the Auth component's state after its first render
FormInit ==
    [isSignup |-> FALSE, phone |-> <<>>, otp |-> <<>>, otpSent |-> FALSE,
     showOTPVerification |-> FALSE, otpLoading |-> FALSE,
     isPhoneVerified |-> FALSE, loading |-> FALSE, feedback |-> "none"]

\* history of the Auth component: whether a verifyOTP call has come back
\* verified, the phone that call was made with, and whether a signup has
\* completed
NoAudit == [everVerified |-> FALSE, verifiedPhone |-> Undefined, created |-> FALSE]

\* a value of the browser code: null, a boolean, or an object with its fields
JsNull == [type |-> "null", body |-> [null |-> TRUE]]
Bool(b) == [type |-> "boolean", body |-> [bool |-> b]]
Obj(body) == [type |-> "object", body |-> body]

\* what the fetch of a wrapper met: fetch() rejected, response.json()
\* rejected, or the parsed body
Fetched(kind, data) == [kind |-> kind, data |-> data]
NoFetch == Fetched("none", JsNull)

\* a settled promise
Resolved(v) == [settled |-> "resolved", value |-> v]
Rejected == [settled |-> "rejected", value |-> JsNull]

\* a call: the function, what its fetch met, and the promise it returned
Exchange(fn, fetched, promise) ==
    [fn |-> fn, fetched |-> fetched, settled |-> promise.settled,
     value |-> promise.value]
NoExchange == Exchange("none", NoFetch, [settled |-> "none", value |-> JsNull])

----------------------------------------------------------------------------
Init ==
    /\ otpStorage = EmptyMap
    /\ now = 0
    /\ nextSweep = SWEEP_INTERVAL
    /\ env \in [production : BOOLEAN, apiKey : BOOLEAN]
    /\ inflight = EmptyBag
    /\ out = NoSend
    /\ last = NoEvent
    /\ successes = [p \in Phones |-> 0]
    /\ form = FormInit
    /\ pending = {}
    /\ audit = NoAudit
    /\ exchange = NoExchange

----------------------------------------------------------------------------
(* POST /api/send-otp, up to its first return or to the await of axios.post *)

\* variant: a window of 5 * 60 taken in seconds
ExpiresAt_Seconds(t) == t + 5 * 60

\* Date.now() + 5 * 60 * 1000
ExpiresAt(t) == t + OTP_TTL

\* variant: the provider is never simulated
SkipsTransport_Never(e) == FALSE

\* variant: the simulation taken on a missing key alone
SkipsTransport_KeyOnly(e) == ~e.apiKey

\* isDev && isPlaceholderKey: simulate the SMS provider
SkipsTransport(e) ==
    LET isDev == ~e.production
        isPlaceholderKey == ~e.apiKey
    IN  isDev /\ isPlaceholderKey

SendOtp(body, k) ==
    LET phone == body.phone
        otp == generateOTP(k)
    IN  IF ~Truthy(phone)
        THEN /\ out' = Sent(phone, Undefined, "none",
                         Json(400, FALSE, "Phone number is required", Undefined, FALSE))
             /\ UNCHANGED <<otpStorage, inflight, last, successes>>
        ELSE IF ~IsTenDigits(phone.str)
        THEN /\ out' = Sent(phone, Undefined, "none",
                         Json(400, FALSE, "Invalid phone number. Must be 10 digits.",
                              Undefined, FALSE))
             /\ UNCHANGED <<otpStorage, inflight, last, successes>>
        ELSE /\ otpStorage' = MapSet(otpStorage, phone.str,
                                     [otp |-> otp, expiresAt |-> ExpiresAt(now)])
             /\ last' = Issued(phone, Str(otp), now,
                               IF MapHas(otpStorage, phone.str)
                               THEN Str(otpStorage[phone.str].otp) ELSE Undefined)
             /\ successes' = [p \in DOMAIN successes |->
                                IF p = phone.str THEN 0 ELSE successes[p]]
             /\ IF SkipsTransport(env)
                THEN /\ out' = Sent(phone, Str(otp), "skipped",
                                 Json(200, TRUE, "OTP sent successfully (Dev Mode)",
                                      Str(otp), FALSE))
                     /\ UNCHANGED inflight
                ELSE /\ BagCardinality(inflight) < MaxInflight
                     /\ inflight' = inflight (+) SetToBag({[kind |-> "sms", phone |-> phone,
                                                            otp |-> Str(otp)]})
                     /\ out' = NoSend

SendOtpStep(body, k) ==
    /\ SendOtp(body, k)
    /\ UNCHANGED <<now, nextSweep, env>>
    /\ UNCHANGED <<authVars, exchange>>

(* send-otp from the return of axios.post (or its rejection) to the response *)

\* variant: the fallback success does not echo the code
SmsResponse_NoEcho(otp, outcome) ==
    IF outcome = "ok"
    THEN Json(200, TRUE, "OTP sent successfully",
              IF ~env.production THEN otp ELSE Undefined, FALSE)
    ELSE IF ~env.production
    THEN Json(200, TRUE, "OTP sent (Dev Fallback - Check Console)", Undefined, FALSE)
    ELSE IF outcome = "fail"
    THEN Json(500, FALSE, "Failed to send OTP via SMS Provider", Undefined, FALSE)
    ELSE Json(500, FALSE, "Failed to send OTP via SMS service", Undefined, FALSE)

\* variant: the acknowledged send echoes the code whatever NODE_ENV is
SmsResponse_AlwaysDebug(otp, outcome) ==
    IF outcome = "ok"
    THEN Json(200, TRUE, "OTP sent successfully", otp, FALSE)
    ELSE IF ~env.production
    THEN Json(200, TRUE, "OTP sent (Dev Fallback - Check Console)", otp, FALSE)
    ELSE IF outcome = "fail"
    THEN Json(500, FALSE, "Failed to send OTP via SMS Provider", Undefined, FALSE)
    ELSE Json(500, FALSE, "Failed to send OTP via SMS service", Undefined, FALSE)

\* variant: a rejected axios.post is never absorbed by the fallback
SmsResponse_ThrowFails(otp, outcome) ==
    IF outcome = "ok"
    THEN Json(200, TRUE, "OTP sent successfully",
              IF ~env.production THEN otp ELSE Undefined, FALSE)
    ELSE IF outcome = "fail"
    THEN IF ~env.production
         THEN Json(200, TRUE, "OTP sent (Dev Fallback - Check Console)", otp, FALSE)
         ELSE Json(500, FALSE, "Failed to send OTP via SMS Provider", Undefined, FALSE)
    ELSE Json(500, FALSE, "Failed to send OTP via SMS service", Undefined, FALSE)

SmsResponse(otp, outcome) ==
    LET isDev == ~env.production
    IN  IF outcome = "ok"
        THEN Json(200, TRUE, "OTP sent successfully",
                  IF isDev THEN otp ELSE Undefined, FALSE)
        ELSE IF outcome = "fail"
        THEN IF ~env.production
             THEN Json(200, TRUE, "OTP sent (Dev Fallback - Check Console)", otp, FALSE)
             ELSE Json(500, FALSE, "Failed to send OTP via SMS Provider", Undefined, FALSE)
        ELSE IF ~env.production
             THEN Json(200, TRUE, "OTP sent (Dev Fallback - Check Console)", otp, FALSE)
             ELSE Json(500, FALSE, "Failed to send OTP via SMS service", Undefined, FALSE)

\* variant: a failed delivery takes the entry back out of the Map
SmsReturn_RollsBack(req, outcome) ==
    /\ req.kind = "sms"
    /\ BagIn(req, inflight)
    /\ out' = Sent(req.phone, req.otp, outcome, SmsResponse(req.otp, outcome))
    /\ inflight' = inflight (-) SetToBag({req})
    /\ otpStorage' = IF SmsResponse(req.otp, outcome).status = 500
                     THEN MapDelete(otpStorage, req.phone.str) ELSE otpStorage
    /\ UNCHANGED <<now, nextSweep, env, last, successes>>
    /\ UNCHANGED <<authVars, exchange>>

SmsReturn(req, outcome) ==
    /\ req.kind = "sms"
    /\ BagIn(req, inflight)
    /\ out' = Sent(req.phone, req.otp, outcome, SmsResponse(req.otp, outcome))
    /\ inflight' = inflight (-) SetToBag({req})
    /\ UNCHANGED <<otpStorage, now, nextSweep, env, last, successes>>
    /\ UNCHANGED <<authVars, exchange>>

----------------------------------------------------------------------------
(* POST /api/verify-otp *)

\* variant: the code lapses already at expiresAt
IsExpired_AtBoundary(storedData, t) == t >= storedData.expiresAt

\* variant: the comparison turned round
IsExpired_Reversed(storedData, t) == t < storedData.expiresAt

\* variant: the clock taken in seconds against an expiry in milliseconds
IsExpired_Seconds(storedData, t) == (t \div 1000) > storedData.expiresAt

\* Date.now() > storedData.expiresAt
IsExpired(storedData, t) == t > storedData.expiresAt

\* variant: only the lengths are compared
OtpMatches_Length(storedData, otp) == Len(storedData.otp) = Len(otp.str)

\* storedData.otp === otp
OtpMatches(storedData, otp) == storedData.otp = otp.str

VerifyOtp(phone, otp) ==
    LET storedData == MapGet(otpStorage, phone.str)
        answer(resp) == Verified(phone, resp)
    IN  IF ~Truthy(phone) \/ ~Truthy(otp)
        THEN /\ last' = answer(Json(400, FALSE, "Phone number and OTP are required",
                                    Undefined, FALSE))
             /\ UNCHANGED <<otpStorage, successes>>
        ELSE IF ~MapHas(otpStorage, phone.str)
        THEN /\ last' = answer(Json(400, FALSE,
                           "No OTP found for this phone number. Please request a new OTP.",
                           Undefined, FALSE))
             /\ UNCHANGED <<otpStorage, successes>>
        ELSE IF IsExpired(storedData, now)
        THEN /\ otpStorage' = MapDelete(otpStorage, phone.str)
             /\ last' = answer(Json(400, FALSE,
                           "OTP has expired. Please request a new one.", Undefined, FALSE))
             /\ UNCHANGED successes
        ELSE IF OtpMatches(storedData, otp)
        THEN /\ otpStorage' = MapDelete(otpStorage, phone.str)
             /\ last' = answer(Json(200, TRUE, "OTP verified successfully",
                                    Undefined, TRUE))
             /\ successes' = [p \in DOMAIN successes |->
                                IF p = phone.str /\ successes[p] < 2
                                THEN successes[p] + 1 ELSE successes[p]]
        ELSE /\ last' = answer(Json(400, FALSE, "Invalid OTP. Please try again.",
                                    Undefined, FALSE))
             /\ UNCHANGED <<otpStorage, successes>>

VerifyOtpStep(body) ==
    /\ VerifyOtp(body.phone, body.otp)
    /\ out' = NoSend
    /\ UNCHANGED <<now, nextSweep, env, inflight>>
    /\ UNCHANGED <<authVars, exchange>>

----------------------------------------------------------------------------
(* setInterval(..., 60 * 1000): clean up expired OTPs *)

\* variant: an entry is swept already at its expiresAt
Cleanup_AtBoundary(m, t) ==
    [p \in {q \in DOMAIN m : ~(t >= m[q].expiresAt)} |-> m[p]]

\* variant: the comparison turned round
Cleanup_Reversed(m, t) ==
    [p \in {q \in DOMAIN m : ~(t < m[q].expiresAt)} |-> m[p]]

Cleanup(m, t) ==
    [p \in {q \in DOMAIN m : ~(t > m[q].expiresAt)} |-> m[p]]

Sweep ==
    /\ now >= nextSweep
    /\ otpStorage' = Cleanup(otpStorage, now)
    /\ nextSweep' = now + SWEEP_INTERVAL
    /\ out' = NoSend
    /\ UNCHANGED <<now, env, inflight, last, successes>>
    /\ UNCHANGED <<authVars, exchange>>

(* Date.now() advances *)

Tick(t) ==
    /\ t > now
    /\ now' = t
    /\ out' = NoSend
    /\ UNCHANGED <<otpStorage, nextSweep, env, inflight, last, successes>>
    /\ UNCHANGED <<authVars, exchange>>

----------------------------------------------------------------------------
Next ==
    \/ \E body \in SendBodies, k \in RandomSamples : SendOtpStep(body, k)
    \/ \E req \in BagToSet(inflight), outcome \in TransportOutcomes : SmsReturn(req, outcome)
    \/ \E body \in VerifyBodies : VerifyOtpStep(body)
    \/ Sweep
    \/ \E t \in ClockReadings : Tick(t)

Spec == Init /\ [][Next]_vars

FairSpec == Spec /\ WF_vars(Sweep)

(* The issue alone, over every value of Math.random(): the first send-otp
   request of the process, drawing any sample *)

GenerateStep(k) ==
    /\ last = NoEvent
    /\ SendOtpStep([phone |-> Str(P1)], k)

GenNext == \E k \in AllSamples : GenerateStep(k)

GenSpec == Init /\ [][GenNext]_vars

----------------------------------------------------------------------------
(* The Auth component.  React runs an event handler, a continuation after an
   await or a timer callback to its end before the next one, and the values
   set by one are what the next one reads.  A control that is not rendered
   or is disabled raises no event. *)

\* e.target.value.replace(/\D/g, '')
StripNonDigits(s) == SelectSeq(s, LAMBDA ch : ch \in DigitChars)

\* what the user types into the phone and the OTP inputs
TypedPhones == {<<>>, P1, P2, AlphaPhone}
TypedOtps == Codes \cup {<<"1", "2", "x">>}

\* what await sendOTP(phone) and await verifyOTP(phone, otp) resolve to: a
\* body of the server, or the object of the wrapper's catch
SendResults ==
    {Json(200, TRUE, "OTP sent successfully", Undefined, FALSE),
     Json(400, FALSE, "Invalid phone number. Must be 10 digits.", Undefined, FALSE),
     Json(0, FALSE, "Failed to send OTP. Please try again.", Undefined, FALSE)}

VerifyResults ==
    {Json(200, TRUE, "OTP verified successfully", Undefined, TRUE),
     Json(400, FALSE, "Invalid OTP. Please try again.", Undefined, FALSE),
     Json(0, FALSE, "Failed to verify OTP. Please try again.", Undefined, FALSE)}

\* a suspended continuation or a timer, with the values its closure holds
Call(kind, phone, otp, isSignup) ==
    [kind |-> kind, phone |-> phone, otp |-> otp, isSignup |-> isSignup]

\* the phone input: rendered in signup mode, disabled once verified
setPhone(raw) ==
    /\ form.isSignup /\ ~form.isPhoneVerified
    /\ form' = [form EXCEPT !.phone = StripNonDigits(raw)]
    /\ UNCHANGED <<pending, audit>>
    /\ UNCHANGED <<serverVars, exchange>>

\* the OTP input: rendered in signup mode while showOTPVerification
setOtp(raw) ==
    /\ form.isSignup /\ form.showOTPVerification
    /\ form' = [form EXCEPT !.otp = StripNonDigits(raw)]
    /\ UNCHANGED <<pending, audit>>
    /\ UNCHANGED <<serverVars, exchange>>

\* the Send OTP button is rendered and enabled
SendOTPButton(f) ==
    /\ f.isSignup /\ ~f.isPhoneVerified /\ ~f.otpSent
    /\ ~(f.otpLoading \/ Len(f.phone) # 10)

\* handleSendOTP up to its await
handleSendOTP ==
    /\ SendOTPButton(form)
    /\ IF form.phone = <<>> \/ Len(form.phone) # 10
       THEN /\ form' = [form EXCEPT !.feedback = "error"]
            /\ UNCHANGED pending
       ELSE /\ form' = [form EXCEPT !.otpLoading = TRUE, !.feedback = "none"]
            /\ pending' = pending \cup {Call("sendOTP", form.phone, <<>>, form.isSignup)}
    /\ UNCHANGED audit
    /\ UNCHANGED <<serverVars, exchange>>

\* handleSendOTP from the result of sendOTP on
SendOTPResolves(call, result) ==
    /\ call \in pending /\ call.kind = "sendOTP"
    /\ form' = IF result.success
               THEN [form EXCEPT !.otpSent = TRUE, !.showOTPVerification = TRUE,
                                 !.feedback = "success", !.otpLoading = FALSE]
               ELSE [form EXCEPT !.feedback = "error", !.otpLoading = FALSE]
    /\ pending' = pending \ {call}
    /\ UNCHANGED audit
    /\ UNCHANGED <<serverVars, exchange>>

\* the Verify button is rendered and enabled
VerifyOTPButton(f) ==
    /\ f.isSignup /\ f.showOTPVerification
    /\ ~(f.otpLoading \/ Len(f.otp) # 6)

\* handleVerifyOTP up to its await
handleVerifyOTP ==
    /\ VerifyOTPButton(form)
    /\ IF form.otp = <<>> \/ Len(form.otp) # 6
       THEN /\ form' = [form EXCEPT !.feedback = "error"]
            /\ UNCHANGED pending
       ELSE /\ form' = [form EXCEPT !.otpLoading = TRUE, !.feedback = "none"]
            /\ pending' = pending \cup {Call("verifyOTP", form.phone, form.otp, form.isSignup)}
    /\ UNCHANGED audit
    /\ UNCHANGED <<serverVars, exchange>>

\* result.success && result.verified
IsVerifiedResult(result) == result.success /\ result.verified

\* handleVerifyOTP from the result of verifyOTP on
VerifyOTPResolves(call, result) ==
    /\ call \in pending /\ call.kind = "verifyOTP"
    /\ IF IsVerifiedResult(result)
       THEN /\ form' = [form EXCEPT !.feedback = "success",
                                    !.showOTPVerification = FALSE,
                                    !.otpSent = FALSE, !.otp = <<>>,
                                    !.isPhoneVerified = TRUE, !.otpLoading = FALSE]
            /\ audit' = [audit EXCEPT !.everVerified = TRUE,
                                      !.verifiedPhone = Str(call.phone)]
       ELSE /\ form' = [form EXCEPT !.feedback = "error", !.otpLoading = FALSE]
            /\ UNCHANGED audit
    /\ pending' = pending \ {call}
    /\ UNCHANGED <<serverVars, exchange>>

toggleMode ==
    /\ form' = [form EXCEPT !.isSignup = ~form.isSignup, !.feedback = "none",
                            !.showOTPVerification = FALSE, !.otpSent = FALSE,
                            !.otp = <<>>]
    /\ UNCHANGED <<pending, audit>>
    /\ UNCHANGED <<serverVars, exchange>>

\* variant: the submission is never held back
SubmitBlocked_Never(f) == FALSE

\* isSignup && !isPhoneVerified
SubmitBlocked(f) == f.isSignup /\ ~f.isPhoneVerified

\* handleSubmit up to setTimeout; the submit button is disabled while loading
handleSubmit ==
    /\ ~form.loading
    /\ IF SubmitBlocked(form)
       THEN /\ form' = [form EXCEPT !.feedback = "error"]
            /\ UNCHANGED pending
       ELSE /\ form' = [form EXCEPT !.loading = TRUE, !.feedback = "none"]
            /\ pending' = pending \cup {Call("timeout", form.phone, <<>>, form.isSignup)}
    /\ UNCHANGED audit
    /\ UNCHANGED <<serverVars, exchange>>

\* the callback of setTimeout(..., 1500), with the isSignup of its closure
SubmitTimeout(call) ==
    /\ call \in pending /\ call.kind = "timeout"
    /\ IF call.isSignup
       THEN /\ form' = [form EXCEPT !.loading = FALSE, !.isSignup = FALSE,
                                    !.feedback = "success",
                                    !.isPhoneVerified = FALSE, !.otpSent = FALSE]
            /\ audit' = [audit EXCEPT !.created = TRUE]
       ELSE /\ form' = [form EXCEPT !.loading = FALSE]
            /\ UNCHANGED audit
    /\ pending' = pending \ {call}
    /\ UNCHANGED <<serverVars, exchange>>

AuthInit == Init /\ env = [production |-> FALSE, apiKey |-> FALSE]

AuthNext ==
    \/ \E raw \in TypedPhones : setPhone(raw)
    \/ \E raw \in TypedOtps : setOtp(raw)
    \/ handleSendOTP
    \/ \E call \in pending, result \in SendResults : SendOTPResolves(call, result)
    \/ handleVerifyOTP
    \/ \E call \in pending, result \in VerifyResults : VerifyOTPResolves(call, result)
    \/ toggleMode
    \/ handleSubmit
    \/ \E call \in pending : SubmitTimeout(call)

AuthSpec == AuthInit /\ [][AuthNext]_vars

----------------------------------------------------------------------------
(* Vocabulary of the properties *)

IsVerifiedAnswer(r) == r.status = 200 /\ r.success /\ r.verified
IsNotFoundAnswer(r) ==
    /\ r.status = 400 /\ ~r.success
    /\ r.message = "No OTP found for this phone number. Please request a new OTP."
IsExpiredAnswer(r) ==
    /\ r.status = 400 /\ ~r.success
    /\ r.message = "OTP has expired. Please request a new one."
IsInvalidAnswer(r) ==
    /\ r.status = 400 /\ ~r.success
    /\ r.message = "Invalid OTP. Please try again."

\* the step is the verify-otp handler run on {phone: p, otp: c}
VerifyRun(p, c) == VerifyOtpStep([phone |-> Str(p), otp |-> Str(c)])

\* the latest handler run on the Map was the issue of code c for phone p
JustIssued(p, c) == last.kind = "issue" /\ last.phone = Str(p) /\ last.otp = Str(c)

\* the latest handler run on the Map was a verify-otp for phone p
JustAnswered(p) == last.kind = "verify" /\ last.phone = Str(p)

EntryLapsed(p) == MapHas(otpStorage, p) /\ now > otpStorage[p].expiresAt

----------------------------------------------------------------------------
(* C1: for a valid phone, a verify-otp with the issued code that follows the
   issue with no other run on the Map in between, within the 5 minutes,
   succeeds; a verify-otp for the same phone that follows the successful one
   (no issue in between) gets the 'No OTP found' answer. *)
C1_IssueVerifyOnce ==
    [][\A p \in Phones, c \in Codes :
          /\ (JustIssued(p, c) /\ now <= last.at + OTP_TTL /\ VerifyRun(p, c))
                => IsVerifiedAnswer(last'.resp)
          /\ (JustAnswered(p) /\ IsVerifiedAnswer(last.resp) /\ VerifyRun(p, c))
                => IsNotFoundAnswer(last'.resp)]_vars

C1_Witness ==
    /\ JustAnswered(P1) /\ IsNotFoundAnswer(last.resp)
    /\ successes[P1] = 1

(* C2: verify-otp answers success only if, when it runs, the phone has an
   entry, Date.now() is not greater than its expiresAt, and the submitted
   code equals the stored one: a matching code past its expiry is refused. *)
C2_SuccessOnlyIfLive ==
    [][\A body \in VerifyBodies :
          (VerifyOtpStep(body) /\ last'.resp.success)
             => /\ Truthy(body.phone) /\ Truthy(body.otp)
                /\ MapHas(otpStorage, body.phone.str)
                /\ now <= otpStorage[body.phone.str].expiresAt
                /\ otpStorage[body.phone.str].otp = body.otp.str]_vars

C2_Witness ==
    /\ last.kind = "verify" /\ IsVerifiedAnswer(last.resp)
    /\ now >= OTP_TTL

(* C3: an issued code is consumed at most once: between two issues for a
   phone, at most one verify-otp for it answers success, whatever other
   requests and sweeps run in between. *)
C3_ConsumedAtMostOnce == \A p \in Phones : successes[p] <= 1

C3_Witness ==
    /\ successes[P1] = 1
    /\ JustAnswered(P1) /\ ~last.resp.success
    /\ MapHas(otpStorage, P2)
    /\ BagCardinality(inflight) > 0

(* C4 (as stated): a verify-otp with the issued code after the 5 minutes
   gets the 'OTP has expired' answer, and no entry remains. *)
C4_AlwaysExpiredAnswer ==
    [][\A p \in Phones, c \in Codes :
          (JustIssued(p, c) /\ now > last.at + OTP_TTL /\ VerifyRun(p, c))
             => (IsExpiredAnswer(last'.resp) /\ ~MapHas(otpStorage', p))]_vars

(* C4 (amended): a verify-otp with the issued code after the 5 minutes fails,
   with the 'OTP has expired' answer when the entry is still in the Map and
   with the 'No OTP found' answer when the sweep has removed it; no entry
   remains, and a further verify-otp for the phone gets 'No OTP found'. *)
C4_ExpiredOrSwept ==
    [][\A p \in Phones, c \in Codes :
          /\ (JustIssued(p, c) /\ now > last.at + OTP_TTL /\ VerifyRun(p, c))
                => /\ IF MapHas(otpStorage, p)
                      THEN IsExpiredAnswer(last'.resp)
                      ELSE IsNotFoundAnswer(last'.resp)
                   /\ ~MapHas(otpStorage', p)
          /\ (JustAnswered(p) /\ IsExpiredAnswer(last.resp) /\ VerifyRun(p, c))
                => IsNotFoundAnswer(last'.resp)]_vars

C4_Witness ==
    /\ JustAnswered(P1) /\ IsExpiredAnswer(last.resp)
    /\ ~MapHas(otpStorage, P1)

(* C5: a verify-otp with a wrong code before expiry gets the 'Invalid OTP'
   answer and leaves the Map as it was; a verify-otp with the stored code
   that follows it within the window succeeds. *)
C5_MismatchKeepsEntry ==
    [][\A p \in Phones, c \in Codes :
          /\ (/\ MapHas(otpStorage, p) /\ now <= otpStorage[p].expiresAt
              /\ otpStorage[p].otp # c
              /\ VerifyRun(p, c))
                => (IsInvalidAnswer(last'.resp) /\ otpStorage' = otpStorage)
          /\ (/\ JustAnswered(p) /\ IsInvalidAnswer(last.resp)
              /\ MapHas(otpStorage, p) /\ now <= otpStorage[p].expiresAt
              /\ otpStorage[p].otp = c
              /\ VerifyRun(p, c))
                => IsVerifiedAnswer(last'.resp)]_vars

C5_Witness ==
    /\ JustAnswered(P1) /\ IsInvalidAnswer(last.resp)
    /\ MapHas(otpStorage, P1) /\ now <= otpStorage[P1].expiresAt

(* C6 (as stated): after a second send-otp for a phone whose code was still
   pending, a verify-otp with the code of the first issuance fails. *)
C6_OldCodeFails ==
    [][\A p \in Phones :
          (/\ last.kind = "issue" /\ last.phone = Str(p)
           /\ last.replaced # Undefined
           /\ VerifyRun(p, last.replaced.str))
             => ~last'.resp.success]_vars

(* C6 (amended): after a second send-otp for a phone whose code was still
   pending, a verify-otp with the code of the first issuance fails unless
   generateOTP returned that same code again. *)
C6_OldCodeFailsIfDifferent ==
    [][\A p \in Phones :
          (/\ last.kind = "issue" /\ last.phone = Str(p)
           /\ last.replaced # Undefined
           /\ last.replaced # last.otp
           /\ VerifyRun(p, last.replaced.str))
             => ~last'.resp.success]_vars

C6_Witness ==
    /\ last.kind = "issue" /\ last.phone = Str(P1)
    /\ last.replaced # Undefined /\ last.replaced # last.otp
    /\ MapHas(otpStorage, P1) /\ otpStorage[P1].otp = last.otp.str

(* C7: a sweep tick removes every entry whose expiry has passed, and under
   a timer that keeps firing an entry whose expiry has passed while the
   timer is due is eventually gone, with no verify-otp needed. *)
C7_SweepEvicts ==
    /\ [][Sweep => \A p \in DOMAIN otpStorage :
                      (now > otpStorage[p].expiresAt) => ~MapHas(otpStorage', p)]_vars
    /\ \A p \in Phones : (EntryLapsed(p) /\ now >= nextSweep) ~> ~EntryLapsed(p)

C7_Witness ==
    /\ last.kind = "issue" /\ last.phone = Str(P1)
    /\ now > last.at + OTP_TTL
    /\ ~MapHas(otpStorage, P1)

(* C8: in production no send-otp response carries the code. *)
C8_NoDebugInProduction ==
    env.production => out.resp.debug = Undefined

C8_Witness ==
    /\ env.production
    /\ out.transport = "ok" /\ out.resp.status = 200 /\ out.resp.success

(* C9: in production a failed transmission (structured failure or rejected
   call, with or without a configured key) is answered 500 with
   success:false, and success is answered only on an acknowledged send. *)
C9_ProductionIsStrict ==
    env.production =>
        /\ out.transport \in {"fail", "throw"}
              => (out.resp.status = 500 /\ ~out.resp.success)
        /\ out.resp.success => out.transport = "ok"

C9_Witness ==
    /\ env.production /\ ~env.apiKey
    /\ out.transport = "throw" /\ out.resp.status = 500

(* C10: outside production every send-otp response for a valid 10-digit
   phone is a success that carries the generated code in debug.otp. *)
C10_DevAlwaysSucceeds ==
    (~env.production /\ Truthy(out.phone) /\ IsTenDigits(out.phone.str))
        => /\ out.resp.status = 200 /\ out.resp.success
           /\ Truthy(out.otp) /\ out.resp.debug = out.otp

C10_Witness ==
    /\ ~env.production /\ env.apiKey
    /\ out.transport = "throw" /\ out.resp.success
    /\ out.resp.debug = out.otp

\* the value is a string of exactly 10 characters, each one of 0..9
TenDecimalDigits(v) ==
    /\ v.type = "string" /\ Len(v.str) = 10
    /\ \A i \in 1..10 :
          v.str[i] \in {"0", "1", "2", "3", "4", "5", "6", "7", "8", "9"}

(* C11: a send-otp whose phone is missing or is not exactly 10 decimal digits
   is answered 400 with success:false, leaves the Map as it was and starts
   no transport call. *)
C11_InvalidPhoneRejected ==
    [][\A body \in SendBodies, k \in RandomSamples :
          (/\ ~TenDecimalDigits(body.phone)
           /\ SendOtpStep(body, k))
             => /\ out'.resp.status = 400 /\ ~out'.resp.success
                /\ out'.transport = "none"
                /\ otpStorage' = otpStorage
                /\ inflight' = inflight]_vars

C11_Witness ==
    /\ out.phone = Str(AlphaPhone) /\ out.resp.status = 400
    /\ MapHas(otpStorage, P1)
    /\ BagCardinality(inflight) > 0

(* C12: the Map holds at most one entry per phone, and a send-otp with a
   valid phone replaces whatever entry the phone had by the newly generated
   code with expiresAt = time of issuance + 300 seconds, so that a re-issue
   restarts the window. *)
C12_IssueReplaces ==
    [][\A body \in SendBodies, k \in RandomSamples :
          (/\ TenDecimalDigits(body.phone)
           /\ SendOtpStep(body, k))
             => /\ MapHas(otpStorage', body.phone.str)
                /\ otpStorage'[body.phone.str] =
                      [otp |-> generateOTP(k), expiresAt |-> now + 300 * 1000]
                /\ Cardinality(DOMAIN otpStorage') =
                      Cardinality(DOMAIN otpStorage \cup {body.phone.str})]_vars

C12_Witness ==
    /\ last.kind = "issue" /\ last.phone = Str(P1)
    /\ last.replaced # Undefined /\ last.at = OTP_TTL
    /\ MapHas(otpStorage, P1)
    /\ otpStorage[P1] = [otp |-> last.otp.str, expiresAt |-> 2 * OTP_TTL]

(* C13: with no API key outside production, a send-otp with a valid phone
   makes no transport call and is answered at once with success and with
   debug.otp equal to the code it stored. *)
C13_DevSkipsTransport ==
    [][\A body \in SendBodies, k \in RandomSamples :
          (/\ ~env.production /\ ~env.apiKey
           /\ TenDecimalDigits(body.phone)
           /\ SendOtpStep(body, k))
             => /\ inflight' = inflight
                /\ out'.transport = "skipped"
                /\ out'.resp.status = 200 /\ out'.resp.success
                /\ MapHas(otpStorage', body.phone.str)
                /\ out'.resp.debug = Str(otpStorage'[body.phone.str].otp)]_vars

C13_Witness ==
    /\ ~env.production /\ ~env.apiKey
    /\ out.transport = "skipped" /\ out.phone = Str(P2)
    /\ MapHas(otpStorage, P2)
    /\ out.resp.success /\ out.resp.debug = Str(otpStorage[P2].otp)

\* the send-otp handler that issued code c for phone p is suspended at its await
DeliveryPending(p, c) == BagIn([kind |-> "sms", phone |-> Str(p), otp |-> Str(c)], inflight)

(* C14: when send-otp suspends at the delivery call the Map already holds
   the code, and a verify-otp with that code that arrives while the call is
   still pending (the issue being the latest run on the Map, within the 5
   minutes) succeeds and removes the entry. *)
C14_VerifyAheadOfDelivery ==
    [][\A p \in Phones, c \in Codes :
          /\ (~DeliveryPending(p, c) /\ DeliveryPending(p, c)')
                => (MapHas(otpStorage', p) /\ otpStorage'[p].otp = c)
          /\ (/\ DeliveryPending(p, c) /\ JustIssued(p, c)
              /\ now <= last.at + OTP_TTL
              /\ VerifyRun(p, c))
                => /\ IsVerifiedAnswer(last'.resp)
                   /\ ~MapHas(otpStorage', p)
                   /\ DeliveryPending(p, c)']_vars

C14_Witness ==
    /\ JustAnswered(P1) /\ IsVerifiedAnswer(last.resp)
    /\ \E c \in Codes : DeliveryPending(P1, c)
    /\ ~MapHas(otpStorage, P1)

\* the step is some verify-otp handler run
AnyVerifyRun == \E body \in VerifyBodies : VerifyOtpStep(body)

(* C15: the entry of a phone goes away or changes only by a successful
   verify-otp for the phone, by a verify-otp for it that finds it expired, by
   a sweep after its expiry, or by a send-otp for the phone; a sweep or a
   failing verify-otp leaves an entry with now <= expiresAt as it is. *)
C15_RemovalCauses ==
    [][\A p \in Phones :
          /\ (/\ MapHas(otpStorage, p)
              /\ ~MapHas(otpStorage', p) \/ otpStorage'[p] # otpStorage[p])
                => \/ /\ \E c \in Codes : VerifyRun(p, c)
                      /\ IsVerifiedAnswer(last'.resp)
                   \/ /\ \E c \in Codes : VerifyRun(p, c)
                      /\ IsExpiredAnswer(last'.resp)
                      /\ now > otpStorage[p].expiresAt
                   \/ /\ Sweep
                      /\ now > otpStorage[p].expiresAt
                   \/ \E k \in RandomSamples : SendOtpStep([phone |-> Str(p)], k)
          /\ (/\ MapHas(otpStorage, p) /\ now <= otpStorage[p].expiresAt
              /\ Sweep \/ (AnyVerifyRun /\ ~last'.resp.success))
                => (MapHas(otpStorage', p) /\ otpStorage'[p] = otpStorage[p])]_vars

C15_Witness ==
    /\ now = OTP_TTL /\ nextSweep = now + SWEEP_INTERVAL
    /\ MapHas(otpStorage, P1) /\ otpStorage[P1].expiresAt = now
    /\ JustAnswered(P1) /\ IsInvalidAnswer(last.resp)

(* C16: verify-otp answers 200 with success:true and verified:true exactly
   when the request found an unexpired entry with the submitted code, and it
   has then deleted the entry; every other outcome is 400 with success:false
   and without verified:true; a request with a missing phone or otp gets the
   'required' answer and leaves the Map as it was. *)
C16_VerifyAnswers ==
    [][\A body \in VerifyBodies :
          VerifyOtpStep(body) =>
             LET missing == body.phone = Undefined \/ body.otp = Undefined
                 matched == /\ ~missing
                            /\ MapHas(otpStorage, body.phone.str)
                            /\ now <= otpStorage[body.phone.str].expiresAt
                            /\ otpStorage[body.phone.str].otp = body.otp.str
             IN  /\ IsVerifiedAnswer(last'.resp) <=> matched
                 /\ matched => ~MapHas(otpStorage', body.phone.str)
                 /\ ~matched => /\ last'.resp.status = 400
                                /\ ~last'.resp.success /\ ~last'.resp.verified
                 /\ missing => /\ last'.resp.message = "Phone number and OTP are required"
                               /\ otpStorage' = otpStorage]_vars

C16_Witness ==
    /\ JustAnswered(P1)
    /\ last.resp.status = 400
    /\ last.resp.message = "Phone number and OTP are required"
    /\ MapHas(otpStorage, P1) /\ now <= otpStorage[P1].expiresAt

\* the number a string of decimal digits denotes
DigitValue(ch) == CHOOSE i \in 0..9 : Digits[i + 1] = ch
RECURSIVE DecimalValue(_)
DecimalValue(s) ==
    IF s = <<>> THEN 0
    ELSE 10 * DecimalValue(SubSeq(s, 1, Len(s) - 1)) + DigitValue(s[Len(s)])

IsSixDigitCode(s) ==
    /\ Len(s) = 6
    /\ \A i \in 1..Len(s) : s[i] \in DigitChars
    /\ s[1] # "0"
    /\ DecimalValue(s) >= 100000 /\ DecimalValue(s) <= 999999

(* C17: every code that send-otp generates and stores is a string of exactly
   6 decimal digits, without a leading zero, whose value lies in
   [100000, 999999]. *)
C17_SixDigitCodes ==
    /\ \A p \in DOMAIN otpStorage : IsSixDigitCode(otpStorage[p].otp)
    /\ last.kind = "issue" => IsSixDigitCode(last.otp.str)

C17_Witness ==
    /\ MapHas(otpStorage, P1)
    /\ otpStorage[P1].otp = <<"9", "9", "9", "5", "6", "0">>
    /\ last.kind = "issue" /\ last.otp = Str(otpStorage[P1].otp)

(* C18: the end of the delivery call never changes the Map; after a
   production delivery that failed with 500, the code of that send-otp (the
   issue being the latest run on the Map, within the 5 minutes) is the one
   in the Map, and a verify-otp with it succeeds. *)
C18_NoRollback ==
    [][/\ \A req \in BagToSet(inflight), outcome \in TransportOutcomes :
             SmsReturn(req, outcome) => otpStorage' = otpStorage
       /\ \A p \in Phones, c \in Codes :
             (/\ out.resp.status = 500 /\ out.phone = Str(p) /\ out.otp = Str(c)
              /\ JustIssued(p, c) /\ now <= last.at + OTP_TTL)
                => /\ MapHas(otpStorage, p) /\ otpStorage[p].otp = c
                   /\ VerifyRun(p, c) => IsVerifiedAnswer(last'.resp)]_vars

C18_Witness ==
    /\ env.production
    /\ out.resp.status = 500 /\ out.phone = Str(P1)
    /\ last.kind = "issue" /\ last.phone = Str(P1) /\ last.otp = out.otp
    /\ last.replaced # Undefined /\ last.replaced # last.otp
    /\ MapHas(otpStorage, P1) /\ otpStorage[P1].otp = out.otp.str

(* C19 (as stated): outside production, a send-otp response that carries
   debug.otp after a transport attempt echoes the code that the Map holds for
   the phone when the response is sent. *)
C19_EchoIsStoredCode ==
    (/\ ~env.production
     /\ out.transport \in TransportOutcomes
     /\ out.resp.debug # Undefined)
        => /\ MapHas(otpStorage, out.phone.str)
           /\ otpStorage[out.phone.str].otp = out.resp.debug.str

(* C19 (amended): outside production, the send-otp response after a
   transport attempt echoes the code that this request generated and stored
   before the delivery call; that is the code in the Map when the response
   is sent provided the issue is still the latest run on the Map for any
   phone and its 5 minutes have not passed (no verify-otp, later send-otp or
   sweep has removed or replaced the entry during the pending call). *)
C19_EchoIsIssuedCode ==
    [][\A req \in BagToSet(inflight), outcome \in TransportOutcomes :
          (~env.production /\ SmsReturn(req, outcome))
             => /\ out'.resp.debug = req.otp
                /\ (/\ JustIssued(req.phone.str, req.otp.str)
                    /\ now <= last.at + OTP_TTL)
                      => /\ MapHas(otpStorage', req.phone.str)
                         /\ otpStorage'[req.phone.str].otp = out'.resp.debug.str]_vars

C19_Witness ==
    /\ ~env.production
    /\ out.transport = "fail" /\ out.phone = Str(P1)
    /\ out.resp.debug = out.otp /\ Truthy(out.otp)
    /\ ~MapHas(otpStorage, P1)
    /\ JustAnswered(P1) /\ IsVerifiedAnswer(last.resp)

(* C20: in the Auth form a signup submission goes on to the account
   creation only with isPhoneVerified true; isPhoneVerified turns true only
   in the continuation of a verifyOTP call whose result has success and
   verified; and no signup completes before a verifyOTP call of this form
   has come back verified. *)
C20_SignupNeedsVerification ==
    [][/\ (handleSubmit /\ form.isSignup /\ pending' # pending)
             => form.isPhoneVerified
       /\ (form'.isPhoneVerified /\ ~form.isPhoneVerified)
             => \E call \in pending, result \in VerifyResults :
                   /\ VerifyOTPResolves(call, result)
                   /\ result.success /\ result.verified
       /\ \A call \in pending :
             (SubmitTimeout(call) /\ call.isSignup)
                => (audit.everVerified /\ audit'.created)]_vars

C20_Witness ==
    /\ audit.created /\ audit.everVerified
    /\ ~form.isSignup /\ ~form.isPhoneVerified /\ ~form.loading
    /\ form.feedback = "success"

----------------------------------------------------------------------------
(* The client wrappers of the browser and GET /api/health *)

\* the body of a try block: it threw, or it came to a value
Thrown == [threw |-> TRUE, value |-> JsNull]
Returned(v) == [threw |-> FALSE, value |-> v]

\* await fetch(...); await response.json()
FetchJson(f) ==
    IF f.kind = "rejects" THEN Thrown
    ELSE IF f.kind = "unparsable" THEN Thrown
    ELSE Returned(f.data)

\* variant: without the catch, a throw rejects the promise
sendOTP_NoCatch(f) ==
    LET try == FetchJson(f)
    IN  IF try.threw THEN Rejected ELSE Resolved(try.value)

sendOTP(f) ==
    LET try == FetchJson(f)
    IN  IF try.threw
        THEN Resolved(Obj(Json(0, FALSE, "Failed to send OTP. Please try again.",
                               Undefined, FALSE)))
        ELSE Resolved(try.value)

verifyOTP(f) ==
    LET try == FetchJson(f)
    IN  IF try.threw
        THEN Resolved(Obj(Json(0, FALSE, "Failed to verify OTP. Please try again.",
                               Undefined, FALSE)))
        ELSE Resolved(try.value)

\* data.status === 'OK'; reading a property of null throws
checkBackendHealth(f) ==
    LET try == FetchJson(f)
        read == IF try.threw THEN Thrown
                ELSE IF try.value.type = "null" THEN Thrown
                ELSE Returned(Bool(try.value.body.status = "OK"))
    IN  IF read.threw THEN Resolved(Bool(FALSE)) ELSE Resolved(read.value)

\* res.json({ status: 'OK', message: 'InnerLight Backend is running' })
health == [status |-> "OK", message |-> "InnerLight Backend is running"]

\* what the fetch of each wrapper can meet
FetchFailures == {Fetched("rejects", JsNull), Fetched("unparsable", JsNull)}

SendFetches ==
    FetchFailures
    \cup {Fetched("json", Obj(r)) :
            r \in {Json(200, TRUE, "OTP sent successfully", Undefined, FALSE),
                   Json(400, FALSE, "Phone number is required", Undefined, FALSE),
                   Json(500, FALSE, "Failed to send OTP via SMS Provider",
                        Undefined, FALSE)}}

VerifyFetches ==
    FetchFailures
    \cup {Fetched("json", Obj(r)) :
            r \in {Json(200, TRUE, "OTP verified successfully", Undefined, TRUE),
                   Json(400, FALSE, "Invalid OTP. Please try again.", Undefined, FALSE)}}

HealthFetches ==
    FetchFailures
    \cup {Fetched("json", Obj(health)),
          Fetched("json", Obj([status |-> "DOWN", message |-> ""])),
          Fetched("json", JsNull)}

sendOTPCall(f) ==
    /\ exchange' = Exchange("sendOTP", f, sendOTP(f))
    /\ UNCHANGED <<serverVars, authVars>>

verifyOTPCall(f) ==
    /\ exchange' = Exchange("verifyOTP", f, verifyOTP(f))
    /\ UNCHANGED <<serverVars, authVars>>

checkBackendHealthCall(f) ==
    /\ exchange' = Exchange("checkBackendHealth", f, checkBackendHealth(f))
    /\ UNCHANGED <<serverVars, authVars>>

\* GET /api/health on the server
healthGet ==
    /\ exchange' = Exchange("GET /api/health", NoFetch, Resolved(Obj(health)))
    /\ UNCHANGED <<serverVars, authVars>>

(* the wrappers and the health endpoint next to a server that issues codes *)
ClientNext ==
    \/ \E f \in SendFetches : sendOTPCall(f)
    \/ \E f \in VerifyFetches : verifyOTPCall(f)
    \/ \E f \in HealthFetches : checkBackendHealthCall(f)
    \/ healthGet
    \/ \E p \in Phones, k \in RandomSamples : SendOtpStep([phone |-> Str(p)], k)

ClientSpec == Init /\ [][ClientNext]_vars

(* C21: in the Auth form, whenever isPhoneVerified is true the phone held
   in the form is the phone that was passed to the verifyOTP call that came
   back verified, also when the phone input is edited while a sendOTP or a
   verifyOTP call is pending. *)
C21_VerifiedPhoneIsFormPhone ==
    form.isPhoneVerified => Str(form.phone) = audit.verifiedPhone

(* C22: the promise of a client wrapper is never rejected; when fetch or
   the JSON parsing fails, sendOTP and verifyOTP resolve to an object with
   success false and a message; checkBackendHealth resolves to true exactly
   when the parsed health response has status 'OK', and to false on every
   failure; GET /api/health answers status 'OK' and leaves the Map as it
   was. *)
C22_WrappersNeverReject ==
    [][/\ \A f \in SendFetches \cup VerifyFetches :
             (sendOTPCall(f) \/ verifyOTPCall(f))
                => /\ exchange'.settled = "resolved"
                   /\ f.kind # "json"
                         => /\ exchange'.value.type = "object"
                            /\ exchange'.value.body.success = FALSE
                            /\ exchange'.value.body.message # ""
       /\ \A f \in HealthFetches :
             checkBackendHealthCall(f)
                => /\ exchange'.settled = "resolved"
                   /\ exchange'.value.type = "boolean"
                   /\ exchange'.value.body.bool =
                         (/\ f.kind = "json" /\ f.data.type = "object"
                          /\ f.data.body.status = "OK")
       /\ healthGet
             => /\ exchange'.value.body.status = "OK"
                /\ otpStorage' = otpStorage]_vars

C22_Witness ==
    /\ exchange.fn = "sendOTP" /\ exchange.fetched.kind = "unparsable"
    /\ exchange.settled = "resolved" /\ exchange.value.body.success = FALSE
    /\ MapHas(otpStorage, P1)

\* the step leaves phone q as it was: no entry before and after, or the same one
SameEntry(q) ==
    /\ MapHas(otpStorage', q) <=> MapHas(otpStorage, q)
    /\ MapHas(otpStorage, q) => otpStorage'[q] = otpStorage[q]

(* C23: a send-otp or a verify-otp for a phone never creates, changes or
   removes the entry of another phone, and a sweep creates no entry and
   leaves every entry with now <= expiresAt as it was. *)
C23_OtherPhonesUntouched ==
    [][/\ \A body \in SendBodies, k \in RandomSamples :
             SendOtpStep(body, k)
                => \A q \in Phones : (Str(q) # body.phone) => SameEntry(q)
       /\ \A body \in VerifyBodies :
             VerifyOtpStep(body)
                => \A q \in Phones : (Str(q) # body.phone) => SameEntry(q)
       /\ Sweep
             => /\ DOMAIN otpStorage' \subseteq DOMAIN otpStorage
                /\ \A q \in DOMAIN otpStorage :
                      (now <= otpStorage[q].expiresAt) => SameEntry(q)]_vars

C23_Witness ==
    /\ now = OTP_TTL + 1 /\ nextSweep = now + SWEEP_INTERVAL
    /\ ~MapHas(otpStorage, P1) /\ successes[P1] = 0
    /\ MapHas(otpStorage, P2) /\ otpStorage[P2].expiresAt = 2 * OTP_TTL
    /\ JustAnswered(P1) /\ IsNotFoundAnswer(last.resp)

====
